---------------------------- MODULE Spec2Model ----------------------------
(***************************************************************************)
(* Poseidon: the asynchronous MySQL persistence daemon                     *)
(* (src/main/singletons/mysql_daemon.cpp) and the TCP session              *)
(* (src/main/tcp_session_base.cpp), modelled as state machines.            *)
(*                                                                         *)
(* DaemonSpec     the persistence daemon: start/stop, the producers        *)
(*                pendForSaving / pendForLoading, waitForAllAsyncOperations*)
(*                and the worker threads running threadProc.               *)
(* DaemonFairSpec DaemonSpec with the fairness a running worker thread, the*)
(*                monotonic clock and a reachable database give.           *)
(* SessionSpec    one TcpSessionBase: threads calling send(), threads      *)
(*                calling shutdown()/shutdown(buffer)/forceShutdown() and  *)
(*                one pump thread calling doWrite().                       *)
(***************************************************************************)
EXTENDS Integers, Sequences, FiniteSets, TLC

\* ------------------------------------------------------------------ bounds
NumObjects == 1
MaxTime == 2
\* calls of start, stop, pendForSaving, pendForLoading and
\* waitForAllAsyncOperations made on the daemon, all together
MaxCalls == 4

\* calls of send, shutdown, shutdown(buffer) and forceShutdown made on the
\* session, all together
MaxSessionCalls == 3
BufLen == 2
MaxHint == 2

NumUris == 1
NumDeps == 1
NumClients == 2
\* calls of registerServlet
MaxRegisterCalls == 3

\* width of std::size_t in the model of getMySqlConnection, in bits
DelayBits == 4
\* connection attempts of one getMySqlConnection call that fail
MaxAttempts == 7

\* g_databaseSaveDelay * 1000, in ticks of the model's monotonic clock
SaveDelay == 1

Objects == 1..NumObjects
\* thread identities: a second start() that launches needs a stop() before it
Workers == 1..((MaxCalls + 2) \div 2)
NullObject == 0
NullNode == 0

VARIABLES
    \* ---- mysql_daemon.cpp
    g_running,      \* volatile bool g_running
    g_thread,       \* boost::thread g_thread: the worker it names, 0 = not-a-thread
    aborted,        \* std::abort() was called
    monoClock,      \* getMonoClock()
    saveNodes,      \* the list nodes of g_saveQueue/g_savePool, by address
    g_saveQueue,    \* addresses, front first
    g_savePool,
    loadNodes,
    g_loadQueue,
    g_loadPool,
    m_context,      \* MySqlObjectBase::m_context of each object
    wpc,            \* each worker thread's position in threadProc
    connection,     \* each worker's scoped_ptr<sql::Connection> is non-null
    asi,            \* each worker's local AsyncSaveItem
    ali,            \* each worker's local AsyncLoadItem
    caught,         \* the catch clause each worker is in: "sql" for
                    \* sql::SQLException, "other" for the other three
    stopPc,         \* the thread inside MySqlDaemon::stop
    stopTarget,     \* the thread stop() joins
    waitPc,         \* the thread inside waitForAllAsyncOperations
    callsLeft,      \* calls of the daemon's operations still to come
    autoSaving,     \* enableAutoSaving() was called on the object
    pendedJobs,     \* AsyncLoadCallbackJobs pended, per bound object
    \* ---- history of the daemon (observations, never read by the program)
    pendCount,      \* pendForSaving calls per object
    saveCount,      \* syncSave calls per object
    dropCount,      \* intents of the object removed without a syncSave
    firstStamp,     \* timeStamp of the object's first intent
    inWindow,       \* every pend of the object came before firstStamp
    \* ---- tcp_session_base.cpp, one TcpSessionBase
    m_shutdown,     \* volatile bool m_shutdown
    m_sendBuffer,   \* StreamBuffer m_sendBuffer, front first
    m_bufferMutex,  \* boost::mutex m_bufferMutex: 0 = free, else the pump holding it
    sockOut,        \* the bytes handed to ::send / SSL_write that it accepted
    rdShut,         \* the fd was shut down for reading
    wrShut,         \* the fd was shut down for writing
    sendPc,         \* per send() call: the calling thread's position in it
    sendResult,     \* per send() call begun: "pending", "true" or "false"
    closePc,        \* per shutdown call: the calling thread's position in it
    closeKind,      \* which of shutdown(), shutdown(buffer), forceShutdown()
    closeRet,       \* the local `ret` of the call
    pumpPc,         \* each pump thread's position in doWrite()
    hint,           \* the bytes peeked into the pump's scratch region
    writeRet,       \* what the pump's last write returned
    readRet,        \* what the latest doRead() returned
    \* ---- history of the session
    spliced,        \* every byte spliced into m_sendBuffer, in splice order
    fdShutdowns,    \* calls of ::shutdown on the fd
    shutdownCalls,  \* calls of shutdown / shutdown(buffer) / forceShutdown begun
    trueReturns,    \* of them, those that returned true
    falseReturns,   \* and false
    forceReturned,  \* a forceShutdown() call has returned
    \* ---- websocket_servlet_manager.cpp
    g_servlets,     \* std::map uri -> weak_ptr<const WebSocketServlet>
    servlets,       \* the WebSocketServlet objects made by registrations that
                    \* succeeded: m_uri and m_dependency of each
    handleHeld,     \* the shared_ptr registerServlet returned is still held
    depOwned,       \* the dependency's owner still holds it
    clientPc,       \* each caller of getServlet: "idle", or "got" while it
                    \* holds what the call gave it
    lookupUri,      \* the uri it looked up
    heldCallback,   \* the servlet its callback pointer shares ownership of
    heldDep,        \* the dependency its lockedDep owns
    \* ---- history of the registry
    regCalls,       \* registerServlet calls made
    lastReg,        \* uri and outcome of the latest one
    \* ---- getMySqlConnection (mysql_daemon.cpp), one call of it
    g_databaseMaxReconnDelay,   \* the configured database_max_reconn_delay
    reconnectDelay, \* std::size_t reconnectDelay
    \* ---- history of the call
    waits           \* per failed attempt, the milliseconds slept before
                    \* the next attempt (0: usleep was not called)

daemonVars == <<g_running, g_thread, aborted, monoClock, saveNodes, g_saveQueue,
                g_savePool, loadNodes, g_loadQueue, g_loadPool, m_context, wpc,
                connection, asi, ali, caught, stopPc, stopTarget, waitPc,
                callsLeft, autoSaving, pendedJobs,
                pendCount, saveCount, dropCount, firstStamp, inWindow>>

sessionVars == <<m_shutdown, m_sendBuffer, m_bufferMutex, sockOut, rdShut, wrShut,
                 sendPc, sendResult, closePc, closeKind, closeRet, pumpPc, hint, writeRet, spliced, fdShutdowns,
                 shutdownCalls, trueReturns, falseReturns, readRet, forceReturned>>

registryVars == <<g_servlets, servlets, handleHeld, depOwned, clientPc,
                  lookupUri, heldCallback, heldDep, regCalls, lastReg>>

reconnectVars == <<g_databaseMaxReconnDelay, reconnectDelay, waits>>

vars == <<daemonVars, sessionVars, registryVars, reconnectVars>>

\* what the operations of one component leave alone
outsideDaemon == <<sessionVars, registryVars, reconnectVars>>
outsideSession == <<daemonVars, registryVars, reconnectVars>>
outsideRegistry == <<daemonVars, sessionVars, reconnectVars>>
outsideReconnect == <<daemonVars, sessionVars, registryVars>>

\* ---------------------------------------------------------------- records
\* AsyncSaveItem() : value-initialised
EmptySaveItem == [object |-> NullObject, timeStamp |-> 0]

\* AsyncLoadItem()
EmptyLoadItem == [object |-> NullObject, filter |-> 0, callback |-> FALSE]

\* `AsyncSaveItem asi;` leaves asi.timeStamp uninitialised. The value is kept
\* apart from every number: an arithmetic read of it is an evaluation error.
Indeterminate == "indeterminate"

Filters == {1}

\* ------------------------------------------------------------------- Init
DaemonInitCalls(calls) ==
    /\ g_running = FALSE
    /\ g_thread = 0
    /\ aborted = FALSE
    /\ monoClock = 0
    /\ saveNodes = <<>>
    /\ g_saveQueue = <<>>
    /\ g_savePool = <<>>
    /\ loadNodes = <<>>
    /\ g_loadQueue = <<>>
    /\ g_loadPool = <<>>
    /\ m_context = [o \in Objects |-> NullNode]
    /\ wpc = [w \in Workers |-> "none"]
    /\ connection = [w \in Workers |-> FALSE]
    /\ asi = [w \in Workers |-> EmptySaveItem]
    /\ ali = [w \in Workers |-> EmptyLoadItem]
    /\ caught = [w \in Workers |-> "none"]
    /\ stopPc = "idle"
    /\ stopTarget = 0
    /\ waitPc = "idle"
    /\ pendCount = [o \in Objects |-> 0]
    /\ saveCount = [o \in Objects |-> 0]
    /\ dropCount = [o \in Objects |-> 0]
    /\ firstStamp = [o \in Objects |-> 0]
    /\ inWindow = [o \in Objects |-> TRUE]
    /\ callsLeft = calls
    /\ autoSaving = [o \in Objects |-> FALSE]
    /\ pendedJobs = [o \in Objects |-> 0]

\* the send() calls and the shutdown calls, numbered in the order they begin;
\* each may be on a thread of its own
Senders == 1..MaxSessionCalls
Closers == 1..MaxSessionCalls
\* pump thread identities; SessionSpec runs the first one only
PumpThreads == {1, 2}
SessionPumps == {1}

\* TcpSessionBase::TcpSessionBase
SessionInit ==
    /\ m_shutdown = FALSE
    /\ m_sendBuffer = <<>>
    /\ m_bufferMutex = 0
    /\ sockOut = <<>>
    /\ rdShut = FALSE
    /\ wrShut = FALSE
    /\ sendPc = [t \in Senders |-> "idle"]
    /\ sendResult = <<>>
    /\ closePc = [t \in Closers |-> "idle"]
    /\ closeKind = [t \in Closers |-> "none"]
    /\ closeRet = [t \in Closers |-> FALSE]
    /\ pumpPc = [p \in PumpThreads |-> "idle"]
    /\ hint = [p \in PumpThreads |-> <<>>]
    /\ writeRet = [p \in PumpThreads |-> 0]
    /\ spliced = <<>>
    /\ fdShutdowns = 0
    /\ shutdownCalls = 0
    /\ trueReturns = 0
    /\ falseReturns = 0
    /\ readRet = 0
    /\ forceReturned = FALSE

Uris == 1..NumUris
Deps == 1..NumDeps
Clients == 1..NumClients
\* boost::weak_ptr<const void>(): the dependency that is not set
NoDep == 0
\* an empty weak_ptr / shared_ptr to a servlet
NoServlet == 0

\* the registry before any registration
RegistryInit ==
    /\ g_servlets = [u \in Uris |-> NoServlet]
    /\ servlets = <<>>
    /\ handleHeld = <<>>
    /\ depOwned = [d \in Deps |-> TRUE]
    /\ clientPc = [c \in Clients |-> "idle"]
    /\ lookupUri = [c \in Clients |-> 0]
    /\ heldCallback = [c \in Clients |-> NoServlet]
    /\ heldDep = [c \in Clients |-> NoDep]
    /\ regCalls = 0
    /\ lastReg = [uri |-> 0, ok |-> FALSE]

DaemonInit == DaemonInitCalls(MaxCalls)

\* ------------------------------------------------- getMySqlConnection
\* the values of a std::size_t
SizeT == 0..(2^DelayBits - 1)

\* line 93: std::size_t reconnectDelay = 0, with the configured cap
ReconnectInit(cap) ==
    /\ g_databaseMaxReconnDelay = cap
    /\ reconnectDelay = 0
    /\ waits = <<>>

\* lines 113-116: reconnectDelay <<= 1 on a std::size_t, then the cap
NextDelay(delay, cap) ==
    LET shifted == (delay * 2) % (2^DelayBits)
    IN  IF shifted > cap THEN cap ELSE shifted

\* lines 95-117: connect() throws sql::SQLException; the first time
\* reconnectDelay only becomes 1, later the thread sleeps and the delay grows
AttemptFails ==
    /\ Len(waits) < MaxAttempts
    /\ IF reconnectDelay = 0
       THEN /\ reconnectDelay' = 1
            /\ waits' = Append(waits, 0)
       ELSE /\ waits' = Append(waits, reconnectDelay)
            /\ reconnectDelay' = NextDelay(reconnectDelay, g_databaseMaxReconnDelay)
    /\ UNCHANGED g_databaseMaxReconnDelay
    /\ UNCHANGED outsideReconnect

\* lines 103-105 and 120: the attempt succeeds and the call returns; the next
\* call starts over
AttemptSucceeds ==
    /\ waits # <<>>
    /\ reconnectDelay' = 0
    /\ waits' = <<>>
    /\ UNCHANGED g_databaseMaxReconnDelay
    /\ UNCHANGED outsideReconnect

ReconnectNext == AttemptFails \/ AttemptSucceeds

Init == DaemonInit /\ SessionInit /\ RegistryInit /\ ReconnectInit(2^DelayBits - 1)

\* getMySqlConnection under every configured cap
ReconnectSpecInit ==
    /\ DaemonInit /\ SessionInit /\ RegistryInit
    /\ \E cap \in SizeT : ReconnectInit(cap)

ReconnectSpec == ReconnectSpecInit /\ [][ReconnectNext]_vars


historyVars == <<pendCount, saveCount, dropCount, firstStamp, inWindow>>
saveListVars == <<saveNodes, g_saveQueue, g_savePool, m_context>>
loadListVars == <<loadNodes, g_loadQueue, g_loadPool>>
objectVars == <<autoSaving, pendedJobs>>
workerVars == <<wpc, connection, asi, ali, caught, objectVars>>
callerVars == <<stopPc, stopTarget, waitPc, callsLeft>>

\* ---------------------------------------------------------------- clock
\* getMonoClock() advances
Tick ==
    /\ ~aborted
    /\ monoClock < MaxTime
    /\ monoClock' = monoClock + 1
    /\ UNCHANGED <<g_running, g_thread, aborted, saveListVars, loadListVars,
                   workerVars, callerVars, historyVars>>
    /\ UNCHANGED outsideDaemon

\* ------------------------------------------------------------ start / stop
\* std::abort(): the process and all its threads are gone
Aborted ==
    /\ aborted' = TRUE
    /\ g_running' = FALSE
    /\ g_thread' = 0
    /\ monoClock' = 0
    /\ saveNodes' = <<>>
    /\ g_saveQueue' = <<>>
    /\ g_savePool' = <<>>
    /\ loadNodes' = <<>>
    /\ g_loadQueue' = <<>>
    /\ g_loadPool' = <<>>
    /\ m_context' = [o \in Objects |-> NullNode]
    /\ wpc' = [w \in Workers |-> "none"]
    /\ connection' = [w \in Workers |-> FALSE]
    /\ asi' = [w \in Workers |-> EmptySaveItem]
    /\ ali' = [w \in Workers |-> EmptyLoadItem]
    /\ caught' = [w \in Workers |-> "none"]
    /\ stopPc' = "idle"
    /\ stopTarget' = 0
    /\ waitPc' = "idle"
    /\ callsLeft' = 0
    /\ autoSaving' = [o \in Objects |-> FALSE]
    /\ pendedJobs' = [o \in Objects |-> 0]
    /\ pendCount' = [o \in Objects |-> 0]
    /\ saveCount' = [o \in Objects |-> 0]
    /\ dropCount' = [o \in Objects |-> 0]
    /\ firstStamp' = [o \in Objects |-> 0]
    /\ inWindow' = [o \in Objects |-> TRUE]

\* MySqlDaemon::start, g_running already set: LOG_FATAL and std::abort()
StartAbort ==
    /\ ~aborted
    /\ callsLeft > 0
    /\ g_running
    /\ Aborted
    /\ UNCHANGED outsideDaemon

\* MySqlDaemon::start, g_running was false: threadProc is launched on a new
\* thread and g_thread names it
StartLaunch ==
    /\ ~aborted
    /\ ~g_running
    /\ callsLeft > 0
    /\ \E w \in Workers :
        /\ wpc[w] = "none"
        /\ \A v \in Workers : v < w => wpc[v] # "none"
        /\ g_running' = TRUE
        /\ g_thread' = w
        /\ wpc' = [wpc EXCEPT ![w] = "connect"]
    /\ callsLeft' = callsLeft - 1
    /\ UNCHANGED <<aborted, monoClock, saveListVars, loadListVars, connection,
                   asi, ali, objectVars, caught, stopPc, stopTarget, waitPc, historyVars>>
    /\ UNCHANGED outsideDaemon

\* MySqlDaemon::stop: atomicStore(g_running, false), notify_all
StopSignal ==
    /\ ~aborted
    /\ stopPc = "idle"
    /\ callsLeft > 0
    /\ callsLeft' = callsLeft - 1
    /\ g_running' = FALSE
    /\ stopPc' = "signalled"
    /\ UNCHANGED <<g_thread, aborted, monoClock, saveListVars, loadListVars,
                   workerVars, stopTarget, waitPc, historyVars>>
    /\ UNCHANGED outsideDaemon

\* MySqlDaemon::stop: if(g_thread.joinable()) g_thread.join() is entered
StopJoinBegin ==
    /\ ~aborted
    /\ stopPc = "signalled"
    /\ stopTarget' = g_thread
    /\ stopPc' = IF g_thread = 0 THEN "idle" ELSE "joining"
    /\ UNCHANGED <<g_running, g_thread, aborted, monoClock, saveListVars,
                   loadListVars, workerVars, waitPc, callsLeft, historyVars>>
    /\ UNCHANGED outsideDaemon

\* MySqlDaemon::stop: join() returns once the joined thread has ended
StopJoinEnd ==
    /\ ~aborted
    /\ stopPc = "joining"
    /\ wpc[stopTarget] = "exited"
    /\ stopPc' = "idle"
    /\ stopTarget' = 0
    /\ g_thread' = IF g_thread = stopTarget THEN 0 ELSE g_thread
    /\ UNCHANGED <<g_running, aborted, monoClock, saveListVars,
                   loadListVars, workerVars, waitPc, callsLeft, historyVars>>
    /\ UNCHANGED outsideDaemon

\* ---------------------------------------------------------------- lists
RECURSIVE Sum(_, _)
Sum(f, S) == IF S = {} THEN 0
             ELSE LET x == CHOOSE y \in S : TRUE IN f[x] + Sum(f, S \ {x})

\* std::list::splice(dst.end(), src, src.begin()) and
\* std::list::splice(dst.begin(), src, src.begin()): the node keeps its address
\* (mutant) the node is appended and also left where it was
SpliceToBackLeaving(dst, src) == [dst |-> Append(dst, Head(src)), src |-> src]

SpliceToBack(dst, src) == [dst |-> Append(dst, Head(src)), src |-> Tail(src)]
SpliceToFront(dst, src) == [dst |-> <<Head(src)>> \o dst, src |-> Tail(src)]

\* ------------------------------------------------------------- producers
\* MySqlDaemon::pendForSaving(object)
PendForSaving(o) ==
    /\ ~aborted
    /\ callsLeft > 0
    /\ callsLeft' = callsLeft - 1
    /\ monoClock + SaveDelay <= MaxTime
    /\ LET fresh == g_savePool = <<>>
           nodes1 == IF fresh THEN Append(saveNodes, EmptySaveItem) ELSE saveNodes
           pool1 == IF fresh THEN <<Len(nodes1)>> ELSE g_savePool
           sp == SpliceToBack(g_saveQueue, pool1)
           node == sp.dst[Len(sp.dst)]
           stamp == monoClock + SaveDelay
       IN  /\ g_saveQueue' = sp.dst
           /\ g_savePool' = sp.src
           /\ saveNodes' = [nodes1 EXCEPT ![node] = [object |-> o, timeStamp |-> stamp]]
           /\ m_context' = [m_context EXCEPT ![o] = node]
           /\ pendCount' = [pendCount EXCEPT ![o] = @ + 1]
           /\ firstStamp' = IF pendCount[o] = 0
                            THEN [firstStamp EXCEPT ![o] = stamp] ELSE firstStamp
           /\ inWindow' = IF pendCount[o] > 0 /\ monoClock >= firstStamp[o]
                          THEN [inWindow EXCEPT ![o] = FALSE] ELSE inWindow
    /\ UNCHANGED <<g_running, g_thread, aborted, monoClock, loadListVars,
                   workerVars, stopPc, stopTarget, waitPc, saveCount, dropCount>>
    /\ UNCHANGED outsideDaemon

\* MySqlDaemon::pendForLoading(object, filter, callback)
PendForLoading(o, f, cb) ==
    /\ ~aborted
    /\ callsLeft > 0
    /\ callsLeft' = callsLeft - 1
    /\ LET fresh == g_loadPool = <<>>
           nodes1 == IF fresh THEN Append(loadNodes, EmptyLoadItem) ELSE loadNodes
           pool1 == IF fresh THEN <<Len(nodes1)>> ELSE g_loadPool
           sp == SpliceToBack(g_loadQueue, pool1)
           node == sp.dst[Len(sp.dst)]
       IN  /\ g_loadQueue' = sp.dst
           /\ g_loadPool' = sp.src
           /\ loadNodes' = [nodes1 EXCEPT
                  ![node] = [object |-> o, filter |-> f, callback |-> cb]]
    /\ UNCHANGED <<g_running, g_thread, aborted, monoClock, saveListVars,
                   workerVars, stopPc, stopTarget, waitPc, historyVars>>
    /\ UNCHANGED outsideDaemon

\* MySqlDaemon::waitForAllAsyncOperations: the first test of the loop
WaitEnter ==
    /\ ~aborted
    /\ waitPc \in {"idle", "returned"}
    /\ callsLeft > 0
    /\ callsLeft' = callsLeft - 1
    /\ waitPc' = IF g_saveQueue = <<>> /\ g_loadQueue = <<>>
                 THEN "returned" ELSE "waiting"
    /\ UNCHANGED <<g_running, g_thread, aborted, monoClock, saveListVars,
                   loadListVars, workerVars, stopPc, stopTarget, historyVars>>
    /\ UNCHANGED outsideDaemon

\* g_queueEmpty.wait(lock) is left only by a wakeup; no code notifies
\* g_queueEmpty, so the only wakeup is a spurious one
WaitSpuriousWakeup ==
    /\ ~aborted
    /\ waitPc = "waiting"
    /\ waitPc' = IF g_saveQueue = <<>> /\ g_loadQueue = <<>>
                 THEN "returned" ELSE "waiting"
    /\ UNCHANGED <<g_running, g_thread, aborted, monoClock, saveListVars,
                   loadListVars, workerVars, stopPc, stopTarget, callsLeft,
                   historyVars>>
    /\ UNCHANGED outsideDaemon

\* ------------------------------------------------------------ the worker
\* getMySqlConnection: connect() and setSchema() succeed
ConnectOk(w) ==
    /\ ~aborted
    /\ wpc[w] = "connect"
    /\ connection' = [connection EXCEPT ![w] = TRUE]
    /\ wpc' = [wpc EXCEPT ![w] = "poll"]
    /\ UNCHANGED <<g_running, g_thread, aborted, monoClock, saveListVars,
                   loadListVars, asi, ali, objectVars, caught, callerVars, historyVars>>
    /\ UNCHANGED outsideDaemon

\* getMySqlConnection: connect() throws sql::SQLException, the loop goes on
ConnectFail(w) ==
    /\ ~aborted
    /\ wpc[w] = "connect"
    /\ UNCHANGED <<g_running, g_thread, aborted, monoClock, saveListVars,
                   loadListVars, workerVars, callerVars, historyVars>>
    /\ UNCHANGED outsideDaemon

\* threadProc, lines 164-169: what the head of the save queue is
HeadReady ==
    /\ g_saveQueue # <<>>
    /\ saveNodes[Head(g_saveQueue)].timeStamp <= monoClock

\* (mutant) the head is taken without comparing the object's context
HeadLiveUnchecked == TRUE

HeadLive == m_context[saveNodes[Head(g_saveQueue)].object] = Head(g_saveQueue)

\* threadProc, lines 172-178: the head is the live intent and is taken
TakeSave(w) ==
    /\ ~aborted
    /\ wpc[w] = "poll"
    /\ HeadReady /\ HeadLive
    /\ LET head == Head(g_saveQueue)
           sp == SpliceToFront(g_savePool, g_saveQueue)
       IN  /\ asi' = [asi EXCEPT ![w] = saveNodes[head]]
           /\ saveNodes' = [saveNodes EXCEPT
                  ![head] = [object |-> NullObject, timeStamp |-> Indeterminate]]
           /\ g_savePool' = sp.dst
           /\ g_saveQueue' = sp.src
    /\ wpc' = [wpc EXCEPT ![w] = "exec"]
    /\ UNCHANGED <<g_running, g_thread, aborted, monoClock, m_context,
                   loadListVars, connection, ali, objectVars, caught,
                   callerVars, historyVars>>
    /\ UNCHANGED outsideDaemon

\* threadProc, lines 164-180: the way to `skip`. A head that is due and not
\* the live intent is emptied and spliced to the pool first.
Skip ==
    /\ ~(HeadReady /\ HeadLive)
    /\ IF HeadReady
       THEN LET head == Head(g_saveQueue)
                sp == SpliceToFront(g_savePool, g_saveQueue)
            IN  /\ saveNodes' = [saveNodes EXCEPT ![head] = EmptySaveItem]
                /\ g_savePool' = sp.dst
                /\ g_saveQueue' = sp.src
                /\ dropCount' = [dropCount EXCEPT ![saveNodes[head].object] = @ + 1]
       ELSE UNCHANGED <<saveNodes, g_savePool, g_saveQueue, dropCount>>
    /\ UNCHANGED <<m_context, pendCount, saveCount, firstStamp, inWindow>>

\* threadProc, lines 181-185: no save was taken, a load is
TakeLoad(w) ==
    /\ ~aborted
    /\ wpc[w] = "poll"
    /\ Skip
    /\ g_loadQueue # <<>>
    /\ LET head == Head(g_loadQueue)
           sp == SpliceToFront(g_loadPool, g_loadQueue)
       IN  /\ ali' = [ali EXCEPT ![w] = loadNodes[head]]
           /\ loadNodes' = [loadNodes EXCEPT ![head] = EmptyLoadItem]
           /\ g_loadPool' = sp.dst
           /\ g_loadQueue' = sp.src
    /\ wpc' = [wpc EXCEPT ![w] = "exec"]
    /\ UNCHANGED <<g_running, g_thread, aborted, monoClock, connection, asi,
                   objectVars, caught, callerVars>>
    /\ UNCHANGED outsideDaemon

\* threadProc, lines 186-188: nothing was taken and g_running is false
Quit(w) ==
    /\ ~aborted
    /\ wpc[w] = "poll"
    /\ Skip
    /\ g_loadQueue = <<>>
    /\ ~g_running
    /\ wpc' = [wpc EXCEPT ![w] = "exec"]
    /\ UNCHANGED <<g_running, g_thread, aborted, monoClock, loadListVars,
                   connection, asi, ali, objectVars, caught, callerVars>>
    /\ UNCHANGED outsideDaemon

\* threadProc, line 189: nothing was taken, timed_wait and loop
TimedWait(w) ==
    /\ ~aborted
    /\ wpc[w] = "poll"
    /\ Skip
    /\ g_loadQueue = <<>>
    /\ g_running
    /\ UNCHANGED <<g_running, g_thread, aborted, monoClock, loadListVars,
                   workerVars, callerVars>>
    /\ UNCHANGED outsideDaemon

\* what syncSave / syncLoad can do: return, throw sql::SQLException, throw
\* another exception
Outcomes == {"ok", "sql", "other"}

\* asi and ali go out of scope: at the end of an iteration, or when an
\* exception unwinds the try block
ItemsDestroyed(w) ==
    /\ asi' = [asi EXCEPT ![w] = EmptySaveItem]
    /\ ali' = [ali EXCEPT ![w] = EmptyLoadItem]

\* where the call goes on: the next iteration (its connection is there), or
\* the catch clause of the exception
AfterCall(w, outcome) ==
    IF outcome = "ok"
    THEN /\ wpc' = [wpc EXCEPT ![w] = "poll"]
         /\ UNCHANGED caught
    ELSE /\ wpc' = [wpc EXCEPT ![w] = "caught"]
         /\ caught' = [caught EXCEPT ![w] = outcome]

\* threadProc, lines 192-193: asi.object->syncSave(connection.get())
SyncSave(w, outcome) ==
    /\ ~aborted
    /\ wpc[w] = "exec"
    /\ asi[w].object # NullObject
    /\ saveCount' = [saveCount EXCEPT ![asi[w].object] = @ + 1]
    /\ AfterCall(w, outcome)
    /\ ItemsDestroyed(w)
    /\ UNCHANGED <<g_running, g_thread, aborted, monoClock, saveListVars,
                   loadListVars, connection, objectVars, callerVars,
                   pendCount, dropCount, firstStamp, inWindow>>
    /\ UNCHANGED outsideDaemon

\* threadProc, lines 194-195: ali.object->syncLoad(connection.get(), filter)
SyncLoad(w, outcome) ==
    /\ ~aborted
    /\ wpc[w] = "exec"
    /\ asi[w].object = NullObject
    /\ ali[w].object # NullObject
    /\ IF outcome = "ok"
       THEN /\ wpc' = [wpc EXCEPT ![w] = "loaded"]
            /\ UNCHANGED <<asi, ali, caught>>
       ELSE /\ AfterCall(w, outcome)
            /\ ItemsDestroyed(w)
    /\ UNCHANGED <<g_running, g_thread, aborted, monoClock, saveListVars,
                   loadListVars, connection, objectVars, callerVars, historyVars>>
    /\ UNCHANGED outsideDaemon

\* threadProc, line 196: ali.object->enableAutoSaving()
EnableAutoSaving(w) ==
    /\ ~aborted
    /\ wpc[w] = "loaded"
    /\ autoSaving' = [autoSaving EXCEPT ![ali[w].object] = TRUE]
    /\ wpc' = [wpc EXCEPT ![w] = "pend"]
    /\ UNCHANGED <<g_running, g_thread, aborted, monoClock, saveListVars,
                   loadListVars, connection, asi, ali, caught, pendedJobs,
                   callerVars, historyVars>>
    /\ UNCHANGED outsideDaemon

\* (mutant) the job is made whether or not a callback was given
HasCallbackAlways(item) == TRUE

\* threadProc, line 198: if(ali.callback)
HasCallback(item) == item.callback

\* threadProc, lines 198-201: make_shared<AsyncLoadCallbackJob>(...)->pend()
PendCallbackJob(w) ==
    /\ ~aborted
    /\ wpc[w] = "pend"
    /\ pendedJobs' = IF HasCallback(ali[w])
                     THEN [pendedJobs EXCEPT ![ali[w].object] = @ + 1]
                     ELSE pendedJobs
    /\ wpc' = [wpc EXCEPT ![w] = "poll"]
    /\ ItemsDestroyed(w)
    /\ UNCHANGED <<g_running, g_thread, aborted, monoClock, saveListVars,
                   loadListVars, connection, caught, autoSaving,
                   callerVars, historyVars>>
    /\ UNCHANGED outsideDaemon

\* (mutant) every exception frees the connection
DiscardsConnectionAlways(exception) == TRUE

\* the catch clause that has connection.reset() is the one of SQLException
DiscardsConnection(exception) == exception = "sql"

\* threadProc, lines 205-218: the catch clauses, then the top of the loop
\* (getMySqlConnection if !connection)
CatchException(w) ==
    /\ ~aborted
    /\ wpc[w] = "caught"
    /\ connection' = [connection EXCEPT
           ![w] = IF DiscardsConnection(caught[w]) THEN FALSE ELSE @]
    /\ wpc' = [wpc EXCEPT
           ![w] = IF DiscardsConnection(caught[w]) THEN "connect" ELSE "poll"]
    /\ caught' = [caught EXCEPT ![w] = "none"]
    /\ UNCHANGED <<g_running, g_thread, aborted, monoClock, saveListVars,
                   loadListVars, asi, ali, objectVars, callerVars, historyVars>>
    /\ UNCHANGED outsideDaemon

\* threadProc, lines 202-204: neither item holds an object, the loop is left
WorkerExit(w) ==
    /\ ~aborted
    /\ wpc[w] = "exec"
    /\ asi[w].object = NullObject
    /\ ali[w].object = NullObject
    /\ wpc' = [wpc EXCEPT ![w] = "exited"]
    /\ UNCHANGED <<g_running, g_thread, aborted, monoClock, saveListVars,
                   loadListVars, connection, asi, ali, objectVars, caught, callerVars, historyVars>>
    /\ UNCHANGED outsideDaemon

\* ------------------------------------------------------- specifications
DaemonNext ==
    \/ Tick
    \/ StartAbort
    \/ StartLaunch
    \/ StopSignal
    \/ StopJoinBegin
    \/ StopJoinEnd
    \/ \E o \in Objects : PendForSaving(o)
    \/ \E o \in Objects, f \in Filters, cb \in BOOLEAN : PendForLoading(o, f, cb)
    \/ WaitEnter
    \/ WaitSpuriousWakeup
    \/ \E w \in Workers : ConnectOk(w)
    \/ \E w \in Workers : ConnectFail(w)
    \/ \E w \in Workers : TakeSave(w)
    \/ \E w \in Workers : TakeLoad(w)
    \/ \E w \in Workers : Quit(w)
    \/ \E w \in Workers : TimedWait(w)
    \/ \E w \in Workers, outcome \in Outcomes : SyncSave(w, outcome)
    \/ \E w \in Workers, outcome \in Outcomes : SyncLoad(w, outcome)
    \/ \E w \in Workers : EnableAutoSaving(w)
    \/ \E w \in Workers : PendCallbackJob(w)
    \/ \E w \in Workers : CatchException(w)
    \/ \E w \in Workers : WorkerExit(w)

DaemonSpec == Init /\ [][DaemonNext]_vars

\* The daemon with one call more and with every load request told apart:
\* its filter is the number of the call that made it.
LoadOrderCalls == MaxCalls + 1

CallIndex == LoadOrderCalls - callsLeft + 1

LoadOrderNext ==
    \/ Tick
    \/ StartAbort
    \/ StartLaunch
    \/ StopSignal
    \/ StopJoinBegin
    \/ StopJoinEnd
    \/ \E o \in Objects : PendForSaving(o)
    \/ \E o \in Objects, cb \in BOOLEAN : PendForLoading(o, CallIndex, cb)
    \/ WaitEnter
    \/ WaitSpuriousWakeup
    \/ \E w \in Workers : ConnectOk(w)
    \/ \E w \in Workers : ConnectFail(w)
    \/ \E w \in Workers : TakeSave(w)
    \/ \E w \in Workers : TakeLoad(w)
    \/ \E w \in Workers : Quit(w)
    \/ \E w \in Workers : TimedWait(w)
    \/ \E w \in Workers, outcome \in Outcomes : SyncSave(w, outcome)
    \/ \E w \in Workers, outcome \in Outcomes : SyncLoad(w, outcome)
    \/ \E w \in Workers : EnableAutoSaving(w)
    \/ \E w \in Workers : PendCallbackJob(w)
    \/ \E w \in Workers : CatchException(w)
    \/ \E w \in Workers : WorkerExit(w)

LoadOrderInit ==
    /\ DaemonInitCalls(LoadOrderCalls) /\ SessionInit /\ RegistryInit
    /\ ReconnectInit(2^DelayBits - 1)

LoadOrderSpec == LoadOrderInit /\ [][LoadOrderNext]_vars

\* the steps of one worker thread, a failed connection attempt apart
WorkerStep(w) ==
    \/ ConnectOk(w)
    \/ TakeSave(w)
    \/ TakeLoad(w)
    \/ Quit(w)
    \/ TimedWait(w)
    \/ \E outcome \in Outcomes : SyncSave(w, outcome)
    \/ \E outcome \in Outcomes : SyncLoad(w, outcome)
    \/ EnableAutoSaving(w)
    \/ PendCallbackJob(w)
    \/ CatchException(w)
    \/ WorkerExit(w)

\* A started thread keeps running, the clock advances, the database is
\* reachable (a connection attempt eventually succeeds) and stop() goes on
\* to its join. Nothing wakes a thread waiting on g_queueEmpty.
DaemonFairSpec ==
    /\ DaemonSpec
    /\ WF_vars(Tick)
    /\ WF_vars(StopJoinBegin)
    /\ WF_vars(StopJoinEnd)
    /\ \A w \in Workers : WF_vars(WorkerStep(w))

\* the steps of one worker thread that do not depend on the database server
\* accepting a connection
ConnectedStep(w) ==
    \/ TakeSave(w)
    \/ TakeLoad(w)
    \/ Quit(w)
    \/ TimedWait(w)
    \/ \E outcome \in Outcomes : SyncSave(w, outcome)
    \/ \E outcome \in Outcomes : SyncLoad(w, outcome)
    \/ EnableAutoSaving(w)
    \/ PendCallbackJob(w)
    \/ CatchException(w)
    \/ WorkerExit(w)

\* The same scheduling, with a database that may stay unreachable: threads
\* keep running, but no connection attempt has to succeed.
DaemonOutageFairSpec ==
    /\ DaemonSpec
    /\ WF_vars(Tick)
    /\ WF_vars(StopJoinBegin)
    /\ WF_vars(StopJoinEnd)
    /\ \A w \in Workers : WF_vars(ConnectedStep(w))

\* ----------------------------------------------------------------- C1
\* the intents of object o that are still to be handled
IntentsOf(o) ==
    {i \in DOMAIN g_saveQueue : saveNodes[g_saveQueue[i]].object = o}

InFlight(o) == \E w \in Workers : asi[w].object = o

\* C1: when every pendForSaving of an object came before its first intent
\* matured, syncSave is called at most once for it, and once none of its
\* intents is left (in the queue or in the worker's hands) syncSave was called
\* exactly once and the other N-1 intents were removed without a syncSave.
C1_CoalescedSaveOnce ==
    \A o \in Objects :
        (pendCount[o] >= 1 /\ inWindow[o]) =>
            /\ saveCount[o] <= 1
            /\ (IntentsOf(o) = {} /\ ~InFlight(o)) =>
                   /\ saveCount[o] = 1
                   /\ dropCount[o] = pendCount[o] - 1

C1_Witness ==
    \E o \in Objects :
        /\ pendCount[o] >= 3
        /\ inWindow[o]
        /\ IntentsOf(o) = {} /\ ~InFlight(o)
        /\ saveCount[o] = 1
        /\ dropCount[o] = pendCount[o] - 1

\* ----------------------------------------------------------------- C2
\* the live entries of the object: they hold it and the object's context is
\* their address
LiveIntentsOf(o) == {i \in IntentsOf(o) : m_context[o] = g_saveQueue[i]}

QueuesEmpty == g_saveQueue = <<>> /\ g_loadQueue = <<>>

\* C3: a caller waiting in waitForAllAsyncOperations returns once both
\* queues are empty.
C3_WaitReturnsOnceDrained ==
    (waitPc = "waiting" /\ QueuesEmpty) ~> (waitPc = "returned" \/ aborted)

\* ----------------------------------------------------------------- C4
\* C4: the worker leaves its loop only when g_running is false and both
\* queues are empty.
C4_ExitsOnlyWhenDrained ==
    [][\A w \in Workers :
          (/\ wpc[w] = "poll"
           /\ wpc'[w] = "exec"
           /\ asi'[w].object = NullObject
           /\ ali'[w].object = NullObject)
          => (~g_running' /\ g_saveQueue' = <<>> /\ g_loadQueue' = <<>>)]_vars

\* ----------------------------------------------------------------- C5
\* a live intent whose timestamp has been reached is in the save queue
ReadyLiveSave ==
    \E i \in DOMAIN g_saveQueue :
        LET node == saveNodes[g_saveQueue[i]]
        IN  /\ node.timeStamp <= monoClock
            /\ m_context[node.object] = g_saveQueue[i]

\* C5: whenever a worker dequeues a load item, the save queue holds no live
\* intent whose timestamp has been reached.
C5_ReadySaveBeforeLoad ==
    [][\A w \in Workers :
          (ali[w].object = NullObject /\ ali'[w].object # NullObject)
          => ~ReadyLiveSave']_vars

\* ======================================================== TcpSessionBase
senderVars == <<sendPc, sendResult>>
closerVars == <<closePc, closeKind, closeRet, shutdownCalls, trueReturns,
                falseReturns>>
pumpVars == <<pumpPc, hint, writeRet, readRet>>
fdVars == <<rdShut, wrShut, fdShutdowns, forceReturned>>

\* the StreamBuffer argument of the c-th send() call and of the c-th
\* shutdown(buffer) call
SendBytes(c) == [i \in 1..BufLen |-> <<"send", c, i>>]
FinalBytes(c) == [i \in 1..BufLen |-> <<"shutdown", c, i>>]

\* TcpSessionBase::send, line 139-142: atomicLoad(m_shutdown)
SendCheck(t) ==
    /\ sendPc[t] = "idle"
    /\ t = Len(sendResult) + 1
    /\ Len(sendResult) + shutdownCalls < MaxSessionCalls
    /\ IF m_shutdown
       THEN /\ sendResult' = Append(sendResult, "false")
            /\ UNCHANGED sendPc
       ELSE /\ sendResult' = Append(sendResult, "pending")
            /\ sendPc' = [sendPc EXCEPT ![t] = "checked"]
    /\ UNCHANGED <<m_shutdown, m_sendBuffer, m_bufferMutex, sockOut, fdVars,
                   closerVars, pumpVars, spliced>>
    /\ UNCHANGED outsideSession

\* TcpSessionBase::send, lines 143-148: lock, splice, unlock, touchSession,
\* return true
SendSplice(t) ==
    /\ sendPc[t] = "checked"
    /\ m_bufferMutex = 0
    /\ m_sendBuffer' = m_sendBuffer \o SendBytes(t)
    /\ spliced' = spliced \o SendBytes(t)
    /\ sendResult' = [sendResult EXCEPT ![t] = "true"]
    /\ sendPc' = [sendPc EXCEPT ![t] = "idle"]
    /\ UNCHANGED <<m_shutdown, m_bufferMutex, sockOut, fdVars,
                   closerVars, pumpVars>>
    /\ UNCHANGED outsideSession

\* !atomicExchange(m_shutdown, true)
ExchangeRetAlwaysTrue(flag) == TRUE

ExchangeRet(flag) == ~flag

ShutdownKinds == {"shutdown", "shutdownBuffer", "forceShutdown"}

\* the first statement of shutdown(), forceShutdown() and shutdown(buffer):
\* const bool ret = !atomicExchange(m_shutdown, true)
ShutdownExchange(t, kind) ==
    /\ closePc[t] = "idle"
    /\ t = shutdownCalls + 1
    /\ Len(sendResult) + shutdownCalls < MaxSessionCalls
    /\ shutdownCalls' = shutdownCalls + 1
    /\ closeKind' = [closeKind EXCEPT ![t] = kind]
    /\ closeRet' = [closeRet EXCEPT ![t] = ExchangeRet(m_shutdown)]
    /\ m_shutdown' = TRUE
    /\ closePc' = [closePc EXCEPT ![t] =
           IF kind = "shutdownBuffer" /\ ExchangeRet(m_shutdown)
           THEN "splice" ELSE "close"]
    /\ UNCHANGED <<m_sendBuffer, m_bufferMutex, sockOut, fdVars, senderVars,
                   trueReturns, falseReturns, pumpVars, spliced>>
    /\ UNCHANGED outsideSession

\* shutdown(buffer), lines 198-201: if(ret) lock, splice, unlock
ShutdownSplice(t) ==
    /\ closePc[t] = "splice"
    /\ m_bufferMutex = 0
    /\ m_sendBuffer' = m_sendBuffer \o FinalBytes(t)
    /\ spliced' = spliced \o FinalBytes(t)
    /\ closePc' = [closePc EXCEPT ![t] = "close"]
    /\ UNCHANGED <<m_shutdown, m_bufferMutex, sockOut, fdVars, senderVars,
                   closeKind, closeRet, shutdownCalls, trueReturns,
                   falseReturns, pumpVars>>
    /\ UNCHANGED outsideSession

\* (mutant) forceShutdown() shuts the fd down for reading only
ShutWrNever(kind) == FALSE

\* the `how` of ::shutdown covers writing: SHUT_RDWR in forceShutdown(),
\* SHUT_RD in shutdown() and shutdown(buffer)
ShutWr(kind) == kind = "forceShutdown"

\* ::shutdown(m_socket.get(), SHUT_RD or SHUT_RDWR); return ret
SocketShutdown(t) ==
    /\ closePc[t] = "close"
    /\ fdShutdowns' = fdShutdowns + 1
    /\ rdShut' = TRUE
    /\ wrShut' = (wrShut \/ ShutWr(closeKind[t]))
    /\ forceReturned' = (forceReturned \/ closeKind[t] = "forceShutdown")
    /\ trueReturns' = IF closeRet[t] THEN trueReturns + 1 ELSE trueReturns
    /\ falseReturns' = IF closeRet[t] THEN falseReturns ELSE falseReturns + 1
    /\ closePc' = [closePc EXCEPT ![t] = "idle"]
    /\ closeKind' = [closeKind EXCEPT ![t] = "none"]
    /\ closeRet' = [closeRet EXCEPT ![t] = FALSE]
    /\ UNCHANGED <<m_shutdown, m_sendBuffer, m_bufferMutex, sockOut, senderVars,
                   shutdownCalls, pumpVars, spliced>>
    /\ UNCHANGED outsideSession

\* StreamBuffer::peek(hint, hintSize): the first hintSize bytes, or all
Peek(buffer, hintSize) ==
    SubSeq(buffer, 1, IF Len(buffer) < hintSize THEN Len(buffer) ELSE hintSize)

\* (mutant) the whole peeked size is discarded, whatever was written
DiscardAll(buffer, n, size) == SubSeq(buffer, size + 1, Len(buffer))

\* StreamBuffer::discard(n) after a write of `size` bytes that returned n
Discard(buffer, n, size) == SubSeq(buffer, n + 1, Len(buffer))

\* doWrite, lines 176-181: lock, peek, unlock; return 0 when nothing is there
DoWritePeek(p, hintSize) ==
    /\ pumpPc[p] = "idle"
    /\ m_bufferMutex = 0
    /\ LET got == Peek(m_sendBuffer, hintSize)
       IN  /\ hint' = [hint EXCEPT ![p] = got]
           /\ IF Len(got) = 0
              THEN /\ writeRet' = [writeRet EXCEPT ![p] = 0]
                   /\ UNCHANGED pumpPc
              ELSE /\ pumpPc' = [pumpPc EXCEPT ![p] = "peeked"]
                   /\ UNCHANGED writeRet
    /\ UNCHANGED <<m_shutdown, m_sendBuffer, m_bufferMutex, sockOut, fdVars,
                   senderVars, closerVars, readRet, spliced>>
    /\ UNCHANGED outsideSession

\* doWrite, line 183: lock.lock(), then the write is entered
DoWriteLock(p) ==
    /\ pumpPc[p] = "peeked"
    /\ m_bufferMutex = 0
    /\ m_bufferMutex' = p
    /\ pumpPc' = [pumpPc EXCEPT ![p] = "writing"]
    /\ UNCHANGED <<m_shutdown, m_sendBuffer, sockOut, fdVars, senderVars,
                   closerVars, hint, writeRet, readRet, spliced>>
    /\ UNCHANGED outsideSession

\* what ::send / SSL_write of `size` bytes can return: an error, or the number
\* of bytes taken; nothing is taken once the fd is shut down for writing
WriteResults(size) == IF wrShut THEN {-1} ELSE {-1, 0} \cup (1..size)

\* doWrite, lines 184-193: the write returns; discard(ret) when ret > 0
DoWriteDone(p, ret) ==
    /\ pumpPc[p] = "writing"
    /\ ret \in WriteResults(Len(hint[p]))
    /\ writeRet' = [writeRet EXCEPT ![p] = ret]
    /\ IF ret > 0
       THEN /\ sockOut' = sockOut \o SubSeq(hint[p], 1, ret)
            /\ m_sendBuffer' = Discard(m_sendBuffer, ret, Len(hint[p]))
       ELSE UNCHANGED <<sockOut, m_sendBuffer>>
    /\ pumpPc' = [pumpPc EXCEPT ![p] = "done"]
    /\ UNCHANGED <<m_shutdown, m_bufferMutex, fdVars, senderVars, closerVars,
                   hint, readRet, spliced>>
    /\ UNCHANGED outsideSession

\* doWrite has returned with `lock` held; the caller's scoped_lock releases
\* it, and the call's scratch region and return value are dead
DoWriteUnlock(p) ==
    /\ pumpPc[p] = "done"
    /\ m_bufferMutex' = 0
    /\ pumpPc' = [pumpPc EXCEPT ![p] = "idle"]
    /\ hint' = [hint EXCEPT ![p] = <<>>]
    /\ writeRet' = [writeRet EXCEPT ![p] = 0]
    /\ UNCHANGED <<m_shutdown, m_sendBuffer, sockOut, fdVars, senderVars,
                   closerVars, readRet, spliced>>
    /\ UNCHANGED outsideSession

\* what ::recv / SSL_read of up to `size` bytes can return: an error, end of
\* stream, or the number of bytes obtained; nothing is obtained once the fd is
\* shut down for reading
ReadResults(size) == IF rdShut THEN {-1, 0} ELSE {-1, 0} \cup (1..size)

\* TcpSessionBase::doRead(data, size)
DoRead(size, ret) ==
    /\ ret \in ReadResults(size)
    /\ readRet' = ret
    /\ UNCHANGED <<m_shutdown, m_sendBuffer, m_bufferMutex, sockOut, fdVars,
                   senderVars, closerVars, pumpPc, hint, writeRet, spliced>>
    /\ UNCHANGED outsideSession

SessionNext ==
    \/ \E t \in Senders : SendCheck(t)
    \/ \E t \in Senders : SendSplice(t)
    \/ \E t \in Closers, kind \in ShutdownKinds : ShutdownExchange(t, kind)
    \/ \E t \in Closers : ShutdownSplice(t)
    \/ \E t \in Closers : SocketShutdown(t)
    \/ \E p \in SessionPumps, hintSize \in 1..MaxHint : DoWritePeek(p, hintSize)
    \/ \E p \in SessionPumps : DoWriteLock(p)
    \/ \E p \in SessionPumps, ret \in -1..MaxHint : DoWriteDone(p, ret)
    \/ \E p \in SessionPumps : DoWriteUnlock(p)
    \/ \E size \in 1..MaxHint, ret \in -1..MaxHint : DoRead(size, ret)

SessionSpec == Init /\ [][SessionNext]_vars

\* The write side of the session with a pool of pump threads: each may be
\* inside doWrite, with a scratch region and a lock object of its own. doRead
\* touches neither the send buffer nor its mutex and is left to SessionSpec.
PumpPoolNext ==
    \/ \E t \in Senders : SendCheck(t)
    \/ \E t \in Senders : SendSplice(t)
    \/ \E t \in Closers, kind \in ShutdownKinds : ShutdownExchange(t, kind)
    \/ \E t \in Closers : ShutdownSplice(t)
    \/ \E t \in Closers : SocketShutdown(t)
    \/ \E p \in PumpThreads, hintSize \in 1..MaxHint : DoWritePeek(p, hintSize)
    \/ \E p \in PumpThreads : DoWriteLock(p)
    \/ \E p \in PumpThreads, ret \in -1..MaxHint : DoWriteDone(p, ret)
    \/ \E p \in PumpThreads : DoWriteUnlock(p)

PumpPoolSpec == Init /\ [][PumpPoolNext]_vars

\* ----------------------------------------------------------------- C6
\* the bytes of `log` that a send() call spliced
SendSpliced(log) == {i \in DOMAIN log : log[i][1] = "send"}

\* the bytes a shutdown(buffer) call spliced are the last ones of the log
FinalBytesLast(log) ==
    \A i, j \in DOMAIN log : (log[i][1] = "shutdown" /\ i < j) => log[j][1] = "shutdown"

\* C6: once m_shutdown is set no send() call appends bytes to the send
\* buffer, so the bytes of shutdown(buffer) are the last bytes ever spliced.
C6_NoSendAfterShutdown ==
    /\ [][m_shutdown => SendSpliced(spliced') = SendSpliced(spliced)]_vars
    /\ []FinalBytesLast(spliced)

\* ----------------------------------------------------------------- C7
\* C7: with one pump thread, what the socket was handed followed by what the
\* send buffer still holds is exactly what was spliced, in splice order (so the
\* socket's bytes are a prefix of it and nothing is lost or reordered); every
\* spliced send buffer belongs to a send() that returned true; a write that
\* returns ret > 0 moves exactly the first ret bytes of the send buffer to the
\* socket and a write that returns ret <= 0 moves nothing.
C7_InOrderNoLoss ==
    /\ [](sockOut \o m_sendBuffer = spliced)
    /\ [](\A i \in SendSpliced(spliced) : sendResult[spliced[i][2]] = "true")
    /\ [][\A p \in PumpThreads :
            (pumpPc[p] = "writing" /\ pumpPc'[p] = "done") =>
                IF writeRet'[p] > 0
                THEN /\ sockOut' = sockOut \o SubSeq(m_sendBuffer, 1, writeRet'[p])
                     /\ m_sendBuffer' =
                            SubSeq(m_sendBuffer, writeRet'[p] + 1, Len(m_sendBuffer))
                ELSE UNCHANGED <<sockOut, m_sendBuffer>>]_vars

\* a partial write has just returned, after every send() spliced its buffer
C7_Witness ==
    /\ pumpPc[1] = "done"
    /\ writeRet[1] > 0
    /\ writeRet[1] < Len(hint[1])
    /\ Cardinality(SendSpliced(spliced)) = 2 * BufLen
    /\ m_sendBuffer # <<>>

\* ----------------------------------------------------------------- C8
\* C8: while the write is in progress doWrite does not hold m_bufferMutex.
C8_WriteOutsideMutex ==
    \A p \in PumpThreads : pumpPc[p] = "writing" => m_bufferMutex # p

\* ----------------------------------------------------------------- C9
\* C9: ::shutdown is performed on the fd at most once in the life of the
\* session, never again by a later call.
C9_FdShutdownOnce == fdShutdowns <= 1

\* ---------------------------------------------------------------- C10
AllShutdownCallsReturned == \A t \in Closers : closePc[t] = "idle"

\* C10: among the calls of shutdown(), shutdown(buffer) and forceShutdown() at
\* most one returns true, and once all calls made have returned exactly one
\* did and every other one returned false; m_shutdown never goes back to
\* false; bytes of a shutdown(buffer) are spliced only by the call whose ret is
\* true.
C10_OneTransition ==
    /\ [](trueReturns <= 1)
    /\ []((AllShutdownCallsReturned /\ shutdownCalls >= 1) =>
            (trueReturns = 1 /\ falseReturns = shutdownCalls - 1))
    /\ [][m_shutdown => m_shutdown']_vars
    /\ [][(spliced' # spliced /\ spliced'[Len(spliced')][1] = "shutdown") =>
            \E t \in Closers :
                /\ closeKind[t] = "shutdownBuffer"
                /\ closeRet[t]
                /\ closePc[t] = "splice"
                /\ spliced'[Len(spliced')][2] = t]_vars

\* one call returned true, a later one false, and the first one's buffer was
\* spliced
C10_Witness ==
    /\ trueReturns = 1
    /\ falseReturns >= 1
    /\ \E i \in DOMAIN spliced : spliced[i][1] = "shutdown"

\* ================================================ WebSocketServletManager
\* the servlet object has an owner: the handle registerServlet returned, or a
\* callback pointer getServlet returned (it shares ownership of the servlet)
ServletAlive(s) ==
    handleHeld[s] \/ \E c \in Clients : heldCallback[c] = s

\* the dependency has an owner: the one that made it, or a lockedDep
DepAlive(d) ==
    depOwned[d] \/ \E c \in Clients : heldDep[c] = d

\* (mutant) registerServlet does not look at the entry it replaces
ExpiredAlways(s) == TRUE

\* boost::weak_ptr<const WebSocketServlet>::expired()
Expired(s) == s = NoServlet \/ ~ServletAlive(s)

\* WebSocketServletManager::registerServlet(uri, dependency, callback)
RegisterServlet(u, d) ==
    /\ regCalls < MaxRegisterCalls
    /\ regCalls' = regCalls + 1
    /\ IF ~Expired(g_servlets[u])
       THEN /\ lastReg' = [uri |-> u, ok |-> FALSE]
            /\ UNCHANGED <<g_servlets, servlets, handleHeld>>
       ELSE /\ servlets' = Append(servlets, [uri |-> u, dep |-> d])
            /\ handleHeld' = Append(handleHeld, TRUE)
            /\ g_servlets' = [g_servlets EXCEPT ![u] = Len(servlets) + 1]
            /\ lastReg' = [uri |-> u, ok |-> TRUE]
    /\ UNCHANGED <<depOwned, clientPc, lookupUri, heldCallback, heldDep>>
    /\ UNCHANGED outsideRegistry

\* ~WebSocketServlet: the objects left without an owner are destroyed, and
\* their members with them
DestroyedServlet == [uri |-> 0, dep |-> NoDep]
Destroy(held, callbacks) ==
    [s \in DOMAIN servlets |->
        IF held[s] \/ \E c \in Clients : callbacks[c] = s
        THEN servlets[s] ELSE DestroyedServlet]

\* the caller of registerServlet drops the handle it was given
DropHandle(s) ==
    /\ s \in DOMAIN servlets
    /\ handleHeld[s]
    /\ handleHeld' = [handleHeld EXCEPT ![s] = FALSE]
    /\ servlets' = Destroy(handleHeld', heldCallback)
    /\ UNCHANGED <<g_servlets, depOwned, clientPc, lookupUri,
                   heldCallback, heldDep, regCalls, lastReg>>
    /\ UNCHANGED outsideRegistry

\* the owner of a dependency releases it
ReleaseDep(d) ==
    /\ depOwned[d]
    /\ depOwned' = [depOwned EXCEPT ![d] = FALSE]
    /\ UNCHANGED <<g_servlets, servlets, handleHeld, clientPc, lookupUri,
                   heldCallback, heldDep, regCalls, lastReg>>
    /\ UNCHANGED outsideRegistry

\* boost::weak_ptr<const void>::lock()
DepLock(d) == IF DepAlive(d) THEN d ELSE NoDep

\* (mutant) the callback is returned without looking at the dependency
ServletLockUnguarded(s) == [callback |-> s, lockedDep |-> NoDep]

\* WebSocketServlet::lock(lockedDep): the callback pointer and lockedDep
ServletLock(s) ==
    IF servlets[s].dep # NoDep
    THEN IF DepLock(servlets[s].dep) = NoDep
         THEN [callback |-> NoServlet, lockedDep |-> NoDep]
         ELSE [callback |-> s, lockedDep |-> servlets[s].dep]
    ELSE [callback |-> s, lockedDep |-> NoDep]

\* WebSocketServletManager::getServlet(lockedDep, uri)
GetServlet(c, u) ==
    /\ clientPc[c] = "idle"
    /\ LET servlet == IF Expired(g_servlets[u]) THEN NoServlet ELSE g_servlets[u]
           got == IF servlet = NoServlet
                  THEN [callback |-> NoServlet, lockedDep |-> NoDep]
                  ELSE ServletLock(servlet)
       IN  /\ heldCallback' = [heldCallback EXCEPT ![c] = got.callback]
           /\ heldDep' = [heldDep EXCEPT ![c] = got.lockedDep]
    /\ lookupUri' = [lookupUri EXCEPT ![c] = u]
    /\ clientPc' = [clientPc EXCEPT ![c] = "got"]
    /\ UNCHANGED <<g_servlets, servlets, handleHeld, depOwned, regCalls, lastReg>>
    /\ UNCHANGED outsideRegistry

\* the caller of getServlet lets go of the callback pointer and lockedDep
ReleaseResult(c) ==
    /\ clientPc[c] = "got"
    /\ clientPc' = [clientPc EXCEPT ![c] = "idle"]
    /\ lookupUri' = [lookupUri EXCEPT ![c] = 0]
    /\ heldCallback' = [heldCallback EXCEPT ![c] = NoServlet]
    /\ heldDep' = [heldDep EXCEPT ![c] = NoDep]
    /\ servlets' = Destroy(handleHeld, heldCallback')
    /\ UNCHANGED <<g_servlets, handleHeld, depOwned, regCalls, lastReg>>
    /\ UNCHANGED outsideRegistry

RegistryNext ==
    \/ \E u \in Uris, d \in Deps \cup {NoDep} : RegisterServlet(u, d)
    \/ \E s \in 1..MaxRegisterCalls : DropHandle(s)
    \/ \E d \in Deps : ReleaseDep(d)
    \/ \E c \in Clients, u \in Uris : GetServlet(c, u)
    \/ \E c \in Clients : ReleaseResult(c)

RegistrySpec == Init /\ [][RegistryNext]_vars

\* ---------------------------------------------------------------- C12
\* a step of registerServlet
RegisterStep == regCalls' # regCalls

\* two servlets that both have an owner are servlets of different URIs
AtMostOneAlivePerUri ==
    \A s1, s2 \in DOMAIN servlets :
        (ServletAlive(s1) /\ ServletAlive(s2) /\ servlets[s1].uri = servlets[s2].uri)
            => s1 = s2

\* C12 as stated: registerServlet(uri) succeeds iff no handle that an earlier
\* registerServlet returned for the uri is still retained, and at most one
\* non-expired servlet exists per URI.
C12_RegisterIffNoHandle ==
    /\ [][RegisterStep =>
            (lastReg'.ok <=>
                ~\E s \in DOMAIN servlets :
                    handleHeld[s] /\ servlets[s].uri = lastReg'.uri)]_vars
    /\ []AtMostOneAlivePerUri

\* C12 amended: registerServlet(uri) succeeds iff no servlet of an earlier
\* registration for the uri still has an owner, the owners being the handle
\* registerServlet returned and the callback pointers getServlet returned;
\* at most one non-expired servlet exists per URI.
C12_RegisterIffNoOwner ==
    /\ [][RegisterStep =>
            (lastReg'.ok <=>
                ~\E s \in DOMAIN servlets :
                    ServletAlive(s) /\ servlets[s].uri = lastReg'.uri)]_vars
    /\ []AtMostOneAlivePerUri

\* a registration was refused as a duplicate and, the first servlet gone, the
\* next one succeeded
C12_Witness ==
    /\ Len(servlets) = 2
    /\ regCalls = 3
    /\ lastReg.ok
    /\ ~ServletAlive(1)
    /\ ServletAlive(2)

\* ---------------------------------------------------------------- C13
\* C13 as stated: getServlet(uri) returns a callback iff the uri has an
\* entry, the handle of its servlet is still retained and the servlet's
\* dependency is unset or still held by its owner.
C13_LookupIffHandleAndDep ==
    [][\A c \in Clients :
          (clientPc[c] = "idle" /\ clientPc'[c] = "got") =>
              LET s == g_servlets[lookupUri'[c]]
              IN  heldCallback'[c] # NoServlet <=>
                      /\ s # NoServlet
                      /\ handleHeld[s]
                      /\ (servlets[s].dep = NoDep \/ depOwned[servlets[s].dep])]_vars

\* C13 amended: getServlet(uri) returns a callback iff the uri has an entry,
\* its servlet still has an owner (the handle, or a callback pointer an
\* earlier getServlet returned) and the servlet's dependency is unset or still
\* has an owner (the one that made it, or the lockedDep of an earlier
\* getServlet); a dependency left without owner never has one again, so every
\* later getServlet of the uri returns none while the entry stays.
C13_LookupIffAlive ==
    /\ [][\A c \in Clients :
            (clientPc[c] = "idle" /\ clientPc'[c] = "got") =>
                LET s == g_servlets[lookupUri'[c]]
                IN  heldCallback'[c] # NoServlet <=>
                        /\ s # NoServlet
                        /\ ServletAlive(s)
                        /\ (servlets[s].dep = NoDep \/ DepAlive(servlets[s].dep))]_vars
    /\ [][\A d \in Deps : ~DepAlive(d) => ~DepAlive(d)']_vars

\* a lookup returned none for a servlet whose handle is retained and whose
\* dependency is gone
C13_Witness ==
    \E c \in Clients :
        /\ clientPc[c] = "got"
        /\ heldCallback[c] = NoServlet
        /\ LET s == g_servlets[lookupUri[c]]
           IN  /\ s # NoServlet
               /\ handleHeld[s]
               /\ servlets[s].dep # NoDep
               /\ ~DepAlive(servlets[s].dep)

\* ---------------------------------------------------------------- C14
\* C14: a registerServlet for a uri whose servlet was registered with a
\* dependency that has no owner left succeeds.
C14_DependencyExpiryFreesUri ==
    [][RegisterStep =>
          LET s == g_servlets[lastReg'.uri]
          IN  (/\ s # NoServlet
               /\ servlets[s].dep # NoDep
               /\ ~DepAlive(servlets[s].dep)) => lastReg'.ok]_vars

Loading(w) == asi[w].object = NullObject /\ ali[w].object # NullObject

\* C15: after a syncLoad that returned, the worker enables auto-saving on the
\* item's object and only then pends one callback job bound to that object if
\* the item has a callback, and none if it has not; nothing else pends a job
\* or enables auto-saving. A syncLoad that threw enables nothing, pends
\* nothing, and its item is destroyed without going back to the load queue.
C15_LoadCompletion ==
    [][~aborted' =>
        /\ \A w \in Workers :
            /\ (wpc[w] = "exec" /\ Loading(w) /\ wpc'[w] = "loaded")
                => /\ ali'[w] = ali[w]
                   /\ UNCHANGED <<autoSaving, pendedJobs>>
            /\ (wpc[w] = "loaded" /\ wpc'[w] # "loaded")
                => /\ wpc'[w] = "pend"
                   /\ ali'[w] = ali[w]
                   /\ autoSaving' = [autoSaving EXCEPT ![ali[w].object] = TRUE]
                   /\ UNCHANGED pendedJobs
            /\ (wpc[w] = "pend" /\ wpc'[w] # "pend")
                => /\ autoSaving[ali[w].object]
                   /\ pendedJobs' =
                        [pendedJobs EXCEPT ![ali[w].object] =
                            IF ali[w].callback THEN @ + 1 ELSE @]
                   /\ UNCHANGED autoSaving
            /\ (wpc[w] = "exec" /\ Loading(w) /\ wpc'[w] = "caught")
                => /\ ali'[w] = EmptyLoadItem
                   /\ UNCHANGED <<autoSaving, pendedJobs, loadListVars>>
        /\ pendedJobs' # pendedJobs
            => \E w \in Workers : wpc[w] = "pend" /\ wpc'[w] # "pend"
        /\ autoSaving' # autoSaving
            => \E w \in Workers : wpc[w] = "loaded" /\ wpc'[w] # "loaded"]_vars

\* one load with a callback was completed, its job pended; a second load
\* (no syncSave was ever called) threw and is gone from the load queue
C15_Witness ==
    /\ \E w \in Workers : wpc[w] = "caught" /\ ali[w] = EmptyLoadItem
    /\ \A o \in Objects : saveCount[o] = 0
    /\ \E o \in Objects : autoSaving[o] /\ pendedJobs[o] = 1
    /\ g_loadQueue = <<>>

\* ---------------------------------------------------------------- C16
\* the worker is inside threadProc
InThreadProc(w) == wpc[w] \notin {"none", "exited"}

\* C16: a worker's connection goes away exactly in the catch clause of a
\* database-layer exception thrown by syncSave or syncLoad, and the worker
\* then is in the connect loop; the catch of another exception keeps it; an
\* item leaves a queue, to a worker or dropped, only in a step of a worker
\* that holds a connection, and a worker without one is in the connect loop.
C16_ConnectionLifecycle ==
    [][~aborted' =>
        /\ \A w \in Workers :
            /\ (connection[w] /\ ~connection'[w])
                <=> (wpc[w] = "caught" /\ caught[w] = "sql" /\ wpc'[w] # "caught")
            /\ (wpc[w] = "caught" /\ caught[w] = "sql" /\ wpc'[w] # "caught")
                => wpc'[w] = "connect"
            /\ (wpc[w] = "caught" /\ caught[w] = "other" /\ wpc'[w] # "caught")
                => connection[w] /\ connection'[w] /\ wpc'[w] = "poll"
            /\ (wpc[w] = "exec" /\ wpc'[w] = "caught")
                => caught'[w] \in {"sql", "other"} /\ connection'[w]
            /\ (asi'[w] # asi[w] /\ asi'[w].object # NullObject)
                => connection[w] /\ connection'[w]
            /\ (ali'[w] # ali[w] /\ ali'[w].object # NullObject)
                => connection[w] /\ connection'[w]
            /\ (InThreadProc(w) /\ ~connection[w]) => wpc[w] = "connect"
        /\ (Len(g_saveQueue') < Len(g_saveQueue) \/ Len(g_loadQueue') < Len(g_loadQueue))
            => \E w \in Workers : wpc[w] = "poll" /\ connection[w] /\ wpc'[w] # "caught"]_vars

\* the only worker lost its connection to a database-layer exception of a
\* syncSave and is in the connect loop while a load waits in its queue
C16_Witness ==
    /\ \E w \in Workers :
        /\ wpc[w] = "connect" /\ ~connection[w]
        /\ \A v \in Workers \ {w} : wpc[v] = "none"
    /\ \E o \in Objects : saveCount[o] = 1
    /\ g_loadQueue # <<>>

\* ---------------------------------------------------------------- C17
Min(a, b) == IF a < b THEN a ELSE b

\* C17: no wait exceeds the cap; the wait after the first failed attempt is
\* 1 ms (unless the cap is below that); each later wait is the double of the
\* one before, or the cap once the double would pass it.
C17_ReconnectBackoff ==
    /\ \A i \in 1..Len(waits) : waits[i] <= g_databaseMaxReconnDelay
    /\ waits # <<>> => waits[1] = Min(1, g_databaseMaxReconnDelay)
    /\ \A i \in 2..Len(waits) :
            waits[i] = Min(2 * waits[i - 1], g_databaseMaxReconnDelay)

\* ---------------------------------------------------------------- C18
\* the threads that execute threadProc
Running == {w \in Workers : InThreadProc(w)}

\* a start() found the flag clear and launched its thread
C18_LaunchOnlyWhenFlagClear ==
    [][\A w \in Workers :
        (~aborted /\ wpc[w] = "none" /\ wpc'[w] # "none")
            => ~g_running /\ g_running' /\ g_thread' = w]_vars

\* the process is terminated by a start() that found the flag set, and that
\* start() launches nothing
C18_StartWhileSetAborts ==
    [][(~aborted /\ aborted') => g_running /\ Running' = {}]_vars

\* C18: a start() launches a worker only when the running flag was clear, a
\* start() that finds it set terminates the process and launches no thread,
\* and at no time do two threads execute threadProc.
C18_SingleWorker ==
    /\ C18_LaunchOnlyWhenFlagClear
    /\ C18_StartWhileSetAborts
    /\ [](Cardinality(Running) <= 1)

\* ---------------------------------------------------------------- C19
\* the load requests that wait in the queue, front first
Queued == [i \in 1..Len(g_loadQueue) |-> loadNodes[g_loadQueue[i]]]

\* a worker calls syncLoad in this step
SyncLoadStep(w) == wpc[w] = "exec" /\ Loading(w) /\ wpc'[w] # "exec"

\* C19: every pendForLoading call appends one request of its own to the load
\* queue and leaves the ones that wait as they are; a request leaves the queue
\* only from the front, whole, to one worker; and when syncLoad is called for
\* a request, no request made before it still waits for its syncLoad, in the
\* queue or in a worker's hands.
C19_LoadsInOrder ==
    [][~aborted' =>
        /\ (callsLeft' < callsLeft /\ loadNodes' # loadNodes)
            => /\ Len(Queued') = Len(Queued) + 1
               /\ SubSeq(Queued', 1, Len(Queued)) = Queued
               /\ Queued'[Len(Queued')].filter = CallIndex
        /\ Len(Queued') < Len(Queued)
            => /\ Queued' = Tail(Queued)
               /\ \E w \in Workers :
                    /\ wpc[w] = "poll" /\ wpc'[w] = "exec"
                    /\ ali'[w] = Head(Queued)
        /\ \A w \in Workers :
            SyncLoadStep(w) =>
                /\ \A i \in 1..Len(Queued) : Queued[i].filter > ali[w].filter
                /\ \A v \in Workers \ {w} :
                    (wpc[v] = "exec" /\ Loading(v))
                        => ali[v].filter > ali[w].filter]_vars

\* ---------------------------------------------------------------- C20
\* stop() was called, has cleared the flag and has not returned; no call is
\* made on the daemon any more
StopPending == stopPc # "idle" /\ ~g_running /\ callsLeft = 0

\* C20: once stop() has cleared the running flag and nothing more is pended
\* or started, the worker exits and stop() returns.
C20_StopTerminates ==
    StopPending ~> (stopPc = "idle" /\ Running = {})

\* ---------------------------------------------------------------- C21
\* the bytes of a sequence
Bytes(seq) == {seq[i] : i \in DOMAIN seq}

\* C21: a doWrite whose write returned ret > 0 removes from the send buffer
\* the ret bytes it handed to the socket; no byte is handed to the socket
\* twice; every byte spliced that is no longer in the send buffer was handed
\* to the socket.
C21_DiscardsWhatItWrote ==
    /\ [][\A p \in PumpThreads :
            (pumpPc[p] = "writing" /\ pumpPc'[p] = "done" /\ writeRet'[p] > 0)
                => m_sendBuffer = SubSeq(hint[p], 1, writeRet'[p]) \o m_sendBuffer']_vars
    /\ [](\A i, j \in DOMAIN sockOut : sockOut[i] = sockOut[j] => i = j)
    /\ [](Bytes(spliced) \subseteq Bytes(sockOut) \cup Bytes(m_sendBuffer))

=============================================================================
